---- MODULE Spec2Model ----
(***************************************************************************)
(* A model of intercom.py: the paginated fetcher, the three reference      *)
(* table builders, the user table builder and the entry point `fetch`.     *)
(*                                                                         *)
(* Python / JSON values are tagged records, so that values of different    *)
(* Python types can be told apart and compared:                            *)
(*   None / null   [t |-> "null"]        str    [t |-> "str", s |-> ..]    *)
(*   np.nan        [t |-> "nan"]         number [t |-> "num", n |-> ..]    *)
(*   list          [t |-> "arr", a |-> <<..>>]                             *)
(*   dict          [t |-> "obj", o |-> [key |-> value]]                    *)
(* A call that can raise returns [t |-> "ok", v |-> value] or              *)
(* [t |-> "raise", exc |-> class, text |-> str(err)]. The text of a        *)
(* message or of an exception is the sequence of the fragments it is       *)
(* formatted from, so that "the message contains X" can be asked.          *)
(***************************************************************************)
EXTENDS Integers, Sequences, FiniteSets, TLC

VARIABLES
    secrets,       \* the `secrets` argument of fetch()
    pc,            \* where fetch() stands: start, paging, returned, build, done
    fetchIdx,      \* which of the four fetch_* calls is running (index into Fetches)
    bearer_token,  \* local of fetch()
    page_url,      \* local of fetch_paginated()
    npages,        \* iterations of `for _ in range(MaxNPages)` completed
    results,       \* local of fetch_paginated()
    response,      \* the last response `client.get` produced
    server,        \* the remote side: what it answers for each URL it was asked
    users,         \* locals of fetch(): None until assigned
    companies,
    segments,
    tags,
    entry,         \* the function that was called: "fetch" or "fetch_paginated"
    requested,     \* the fetches that have issued a request, in the order of their first
    requests,      \* the URLs the running fetch_paginated has requested, in order
    outcome,       \* what fetch() returned or raised; "running" before that
    fnCall,        \* direct calls of the pure functions (FnSpec)
    fnArgs,
    fnOut

mainVars == <<secrets, pc, fetchIdx, bearer_token, page_url, npages, results,
              response, server, users, companies, segments, tags, entry,
              requested, requests, outcome>>
fnVars == <<fnCall, fnArgs, fnOut>>
vars == <<mainVars, fnVars>>

(***************************************************************************)
(* Python values                                                           *)
(***************************************************************************)
JNull == [t |-> "null"]
JNaN == [t |-> "nan"]
JNaT == [t |-> "nat"]
JStr(s) == [t |-> "str", s |-> s]
JNum(n) == [t |-> "num", n |-> n]
JArr(a) == [t |-> "arr", a |-> a]
JObj(f) == [t |-> "obj", o |-> f]
EmptyDict == JObj(<<>>)

Ok(v) == [t |-> "ok", v |-> v]
Raise(exc, text) == [t |-> "raise", exc |-> exc, text |-> text]

\* Python truthiness (`if not x`, `x or y`, `a and b`)
Truthy(v) ==
    CASE v.t = "null" -> FALSE
      [] v.t = "str" -> v.s # ""
      [] v.t = "num" -> v.n # 0
      [] v.t = "arr" -> v.a # <<>>
      [] v.t = "obj" -> DOMAIN v.o # {}
      [] OTHER -> TRUE

\* dict.get(key): None when the key is absent
DictGet(d, key) == IF key \in DOMAIN d.o THEN d.o[key] ELSE JNull

\* `x or y`
PyOr(x, y) == IF Truthy(x) THEN x ELSE y

RECURSIVE StrJoin(_, _)
\* sep.join(xs) for a list of Python strings
StrJoin(sep, xs) ==
    IF xs = <<>> THEN ""
    ELSE IF Len(xs) = 1 THEN xs[1]
    ELSE xs[1] \o sep \o StrJoin(sep, Tail(xs))

RECURSIVE Flatten(_)
\* the concatenation of a sequence of sequences
Flatten(ss) == IF ss = <<>> THEN <<>> ELSE Head(ss) \o Flatten(Tail(ss))

(***************************************************************************)
(* Module constants                                                        *)
(***************************************************************************)
MaxNPages == 50
USERS_URL == "https://api.intercom.io/users?per_page=60&sort=created_at"
COMPANIES_URL == "https://api.intercom.io/companies?per_page=60"
TAGS_URL == "https://api.intercom.io/tags"
SEGMENTS_URL == "https://api.intercom.io/segments"

Columns ==
    << [name |-> "email", path |-> <<"email">>],
       [name |-> "name", path |-> <<"name">>],
       [name |-> "city", path |-> <<"location_data", "city_name">>],
       [name |-> "country", path |-> <<"location_data", "country_name">>],
       [name |-> "session_count", path |-> <<"session_count">>],
       [name |-> "last_request_at", path |-> <<"last_request_at">>],
       [name |-> "social_profiles", path |-> <<"social_profiles", "social_profiles">>],
       [name |-> "companies", path |-> <<"companies", "companies">>],
       [name |-> "segments", path |-> <<"segments", "segments">>],
       [name |-> "tags", path |-> <<"tags", "tags">>],
       [name |-> "timezone", path |-> <<"location_data", "timezone">>],
       [name |-> "created_at", path |-> <<"created_at">>],
       [name |-> "updated_at", path |-> <<"updated_at">>],
       [name |-> "id", path |-> <<"id">>] >>

(***************************************************************************)
(* read_raw_value, read_column                                             *)
(***************************************************************************)
RECURSIVE read_raw_value(_, _)
\* Descends `path` key by key. A missing key (KeyError) gives None; indexing
\* something that is not a dict with a str raises TypeError, which is not caught.
read_raw_value(obj, path) ==
    IF path = <<>> THEN Ok(obj)
    ELSE IF obj.t # "obj" THEN Raise("TypeError", <<"object is not subscriptable">>)
    ELSE IF Head(path) \notin DOMAIN obj.o THEN Ok(JNull)
    ELSE read_raw_value(obj.o[Head(path)], Tail(path))

\* A Series (a sequence of cells), one cell per user
read_column(us, path) ==
    LET vals == [i \in 1..Len(us) |-> read_raw_value(us[i], path)]
    IN  IF \E i \in 1..Len(us) : vals[i].t = "raise"
        THEN vals[CHOOSE i \in 1..Len(us) :
                    /\ vals[i].t = "raise"
                    /\ \A j \in 1..(i-1) : vals[j].t # "raise"]
        ELSE Ok([i \in 1..Len(us) |-> vals[i].v])

(***************************************************************************)
(* ids_to_names                                                            *)
(***************************************************************************)
\* [names.get(d["id"]) for d in ds if d["id"] in names]; `names` is a dict
\* from id to name, modelled as a function from id strings to name strings.
\* The first definition is the comprehension without its `if`, an id that is
\* not in `names` giving an empty name.
find_names_unfiltered(ds, names) ==
    [i \in 1..Len(ds.a) |->
        IF ds.a[i].o["id"].s \in DOMAIN names THEN names[ds.a[i].o["id"].s] ELSE ""]
find_names(ds, names) ==
    LET present == SelectSeq(ds.a, LAMBDA d : d.o["id"].s \in DOMAIN names)
    IN  [i \in 1..Len(present) |-> names[present[i].o["id"].s]]

\* One str cell per user. Iterating a value that is not a list (None, when the
\* user has no such field) raises TypeError.
ids_to_names(objs, names) ==
    IF \E i \in 1..Len(objs) : objs[i].t # "arr"
    THEN Raise("TypeError", <<"object is not iterable">>)
    ELSE Ok([i \in 1..Len(objs) |-> JStr(StrJoin("; ", find_names(objs[i], names)))])

(***************************************************************************)
(* extract_social_media_username                                           *)
(***************************************************************************)
\* next(profile["username"] for profile in profiles if profile["name"] == service),
\* np.nan on StopIteration
find_username(profiles, service) ==
    LET hits == SelectSeq(profiles.a, LAMBDA p : p.o["name"] = JStr(service))
    IN  IF hits = <<>> THEN JNaN ELSE hits[1].o["username"]

\* pd.Series(values, dtype=str): a str stays as it is and a missing value stays
\* missing (pandas keeps NA when it casts to str); anything else is str()-ed.
\* The first definition is the cast that does not keep NA: np.nan becomes "nan".
SeriesStr_nan_text(cell) ==
    CASE cell.t = "str" -> cell
      [] cell.t = "nan" -> JStr("nan")
      [] cell.t = "null" -> JStr("None")
      [] OTHER -> JStr(ToString(cell))
SeriesStr(cell) ==
    CASE cell.t \in {"str", "nan", "null"} -> cell
      [] cell.t = "num" -> JStr(ToString(cell.n))
      [] OTHER -> JStr(ToString(cell))

extract_social_media_username(objs, service) ==
    IF \E i \in 1..Len(objs) : objs[i].t # "arr"
    THEN Raise("TypeError", <<"object is not iterable">>)
    ELSE Ok([i \in 1..Len(objs) |-> SeriesStr(find_username(objs[i], service))])

(***************************************************************************)
(* build_dataframe                                                         *)
(* A table is the order of its columns and the values of each:            *)
(* [order |-> <<name, ...>>, data |-> [name |-> <<cell, ...>>]].           *)
(***************************************************************************)
\* table.columns.get_loc(name): the 0-based position of the column
get_loc(table, name) ==
    (CHOOSE i \in 1..Len(table.order) : table.order[i] = name) - 1

Col(table, name) == table.data[name]

\* table[name] = values, for a column the table already has: same position
SetCol(table, name, values) == [table EXCEPT !.data[name] = values]

\* table.pop(name): the table without that column
PopCol(table, name) ==
    [order |-> SelectSeq(table.order, LAMBDA n : n # name),
     data |-> [n \in DOMAIN table.data \ {name} |-> table.data[n]]]

\* table.insert(index, name, values), with pandas' 0-based index
InsertCol(table, index, name, values) ==
    [order |-> SubSeq(table.order, 1, index) \o <<name>>
                 \o SubSeq(table.order, index + 1, Len(table.order)),
     data |-> (name :> values) @@ table.data]

MapCells(values, Op(_)) == [i \in 1..Len(values) |-> Op(values[i])]

\* .astype("category"): the values stay, None becomes the missing value
AsCategory(cell) == IF cell.t = "null" THEN JNaN ELSE cell

\* .astype(np.int32) on an object column: int(None) raises TypeError. The
\* session counts of the model are small, so the 32-bit value is the value.
AsInt32(values) ==
    IF \E i \in 1..Len(values) : values[i].t # "num"
    THEN Raise("TypeError", <<"int() argument must be a string or a number">>)
    ELSE Ok([i \in 1..Len(values) |-> JNum(values[i].n)])

\* pd.to_datetime(column, unit="s"): None becomes NaT
ToDatetime(cell) ==
    IF cell.t = "num" THEN [t |-> "datetime", epoch |-> cell.n] ELSE JNaT

\* the next statement `Stage` of a function, unless an earlier one raised
Then(r, Stage(_)) == IF r.t = "raise" THEN r ELSE Stage(r.v)

\* pd.DataFrame({name: read_column(users, path) for name, path in Columns})
ReadColumns(us) ==
    LET cols == [k \in 1..Len(Columns) |-> read_column(us, Columns[k].path)]
    IN  IF \E k \in 1..Len(Columns) : cols[k].t = "raise"
        THEN cols[CHOOSE k \in 1..Len(Columns) :
                    /\ cols[k].t = "raise"
                    /\ \A j \in 1..(k-1) : cols[j].t # "raise"]
        ELSE Ok([order |-> [k \in 1..Len(Columns) |-> Columns[k].name],
                 data |-> [n \in {Columns[k].name : k \in 1..Len(Columns)} |->
                             cols[CHOOSE k \in 1..Len(Columns) : Columns[k].name = n].v]])

\* table[name] = table[name].astype("category")
CastCategory(table, name) ==
    Ok(SetCol(table, name, MapCells(Col(table, name), AsCategory)))

\* table[name] = table[name].astype(np.int32)
CastInt32(table, name) ==
    LET c == AsInt32(Col(table, name))
    IN  IF c.t = "raise" THEN c ELSE Ok(SetCol(table, name, c.v))

\* table[name] = pd.to_datetime(table[name], unit="s")
CastDatetime(table, name) ==
    Ok(SetCol(table, name, MapCells(Col(table, name), ToDatetime)))

\* table[name] = ids_to_names(table[name], names)
ResolveNames(table, name, names) ==
    LET c == ids_to_names(Col(table, name), names)
    IN  IF c.t = "raise" THEN c ELSE Ok(SetCol(table, name, c.v))

\* The social_profiles column is popped and the three username columns are
\* inserted where it was.
ReplaceProfiles(table) ==
    LET index == get_loc(table, "social_profiles")
        profiles == Col(table, "social_profiles")
        popped == PopCol(table, "social_profiles")
        fb == extract_social_media_username(profiles, "facebook")
        li == extract_social_media_username(profiles, "linkedin")
        tw == extract_social_media_username(profiles, "twitter")
    IN  IF fb.t = "raise" THEN fb
        ELSE IF li.t = "raise" THEN li
        ELSE IF tw.t = "raise" THEN tw
        ELSE Ok(InsertCol(InsertCol(InsertCol(popped,
                    index, "facebook_username", fb.v),
                    index + 1, "linkedin_username", li.v),
                    index + 2, "twitter_username", tw.v))

\* Ok(table) or the exception the first failing statement raises
build_dataframe(us, cs, ss, ts) ==
    LET r0 == ReadColumns(us)
        r1 == Then(r0, LAMBDA t : CastCategory(t, "city"))
        r2 == Then(r1, LAMBDA t : CastCategory(t, "country"))
        r3 == Then(r2, LAMBDA t : CastInt32(t, "session_count"))
        r4 == Then(r3, LAMBDA t : CastDatetime(t, "last_request_at"))
        r5 == Then(r4, LAMBDA t : CastDatetime(t, "created_at"))
        r6 == Then(r5, LAMBDA t : CastDatetime(t, "updated_at"))
        r7 == Then(r6, LAMBDA t : ResolveNames(t, "companies", cs))
        r8 == Then(r7, LAMBDA t : ResolveNames(t, "segments", ss))
        r9 == Then(r8, LAMBDA t : ResolveNames(t, "tags", ts))
    IN  Then(r9, ReplaceProfiles)

(***************************************************************************)
(* The entry point's error mapping                                         *)
(***************************************************************************)
\* i18n.trans(id, default, {"error": ...}): the default text with {error} filled in
trans(id, default, error) == [t |-> "message", id |-> id, text |-> default \o error]

Return(v) == [t |-> "return", v |-> v]
Running == [t |-> "running"]

\* httpx's exception classes: RequestError covers what goes wrong while a
\* request is issued (connection errors, timeouts); HTTPStatusError, which
\* raise_for_status() raises, is an HTTPError but not a RequestError.
IsRequestError(exc) == exc \in {"ConnectError", "ReadTimeout"}

\* the two `except` clauses of fetch(); any other exception propagates
fetch_except(err) ==
    IF IsRequestError(err.exc)
    THEN Return(trans("error.httpError.general", <<"Error querying Intercom: ">>, err.text))
    ELSE IF err.exc = "RuntimeError"
    THEN Return(trans("error.unexpectedIntercomJson.general",
                      <<"Error handling Intercom response: ">>, err.text))
    ELSE err

\* (secrets.get("access_token") or {}).get("secret"); the first definition
\* is the lookup that stops at the entry and never reads its "secret"
access_token_of_entry(secs) == DictGet(secs, "access_token")
access_token_of(secs) == DictGet(PyOr(DictGet(secs, "access_token"), EmptyDict), "secret")

(***************************************************************************)
(* fetch_paginated: one iteration of its loop                              *)
(***************************************************************************)
\* the four fetches of fetch(), in the order it runs them
Fetches ==
    << [name |-> "users", url |-> USERS_URL, data_key |-> "users"],
       [name |-> "companies", url |-> COMPANIES_URL, data_key |-> "companies"],
       [name |-> "segments", url |-> SEGMENTS_URL, data_key |-> "segments"],
       [name |-> "tags", url |-> TAGS_URL, data_key |-> "tags"] >>

\* `for _ in range(MaxNPages)`: whether an iteration follows the first n
\* (the first definition is the loop that is off by one)
range_has_next_51(n) == n <= MaxNPages
range_has_next(n) == n < MaxNPages

\* results.extend(items); the first definition is an extend that skips the
\* records results already holds
extend_unseen(rs, items) ==
    rs \o SelectSeq(items, LAMBDA x : \A k \in 1..Len(rs) : rs[k] # x)
extend(rs, items) == rs \o items

\* RuntimeError(f'Intercom did not return "{data_key}" data'); the first
\* definition is the error without the key in its text
missing_key_error_unnamed(data_key) ==
    Raise("RuntimeError", <<"Intercom did not return the expected data">>)
missing_key_error(data_key) ==
    Raise("RuntimeError", <<"Intercom did not return \"", data_key, "\" data">>)

\* What one iteration does with the response to its request: raises, or
\* extends results by `items` and then goes on to `url` or breaks.
page_iteration(data_key, resp) ==
    IF resp.kind = "exception" THEN Raise(resp.exc, resp.text)
    ELSE IF resp.status \notin 200..299
    THEN Raise("HTTPStatusError", <<ToString(resp.status)>>)
    ELSE IF ~resp.body.valid
    THEN Raise("JSONDecodeError", <<"Expecting value">>)
    ELSE LET data == resp.body.json IN
         IF data.t # "obj"
         THEN Raise("RuntimeError", <<"Intercom did not return a JSON Object">>)
         ELSE IF data_key \notin DOMAIN data.o
         THEN missing_key_error(data_key)
         ELSE LET items == data.o[data_key].a IN
              IF "pages" \notin DOMAIN data.o THEN [t |-> "break", items |-> items]
              ELSE LET pages == data.o["pages"] IN
                   IF pages.t # "obj"
                   THEN Raise("TypeError", <<"object is not subscriptable">>)
                   ELSE IF "next" \notin DOMAIN pages.o
                   THEN Raise("KeyError", <<"next">>)
                   ELSE IF Truthy(pages.o["next"])
                   THEN [t |-> "next", items |-> items, url |-> pages.o["next"].s]
                   ELSE [t |-> "break", items |-> items]

(***************************************************************************)
(* The reference-table builders                                            *)
(***************************************************************************)
\* {x["id"]: x["name"] for x in items [if "name" in x]}: a later entry with
\* the same id replaces an earlier one; x["name"] on an entry without a name
\* raises KeyError unless such entries are skipped.
name_dict(items, skip_nameless) ==
    LET named == SelectSeq(items, LAMBDA x : "name" \in DOMAIN x.o)
        ids == {named[i].o["id"].s : i \in 1..Len(named)}
        last(id) == CHOOSE i \in 1..Len(named) :
                        /\ named[i].o["id"].s = id
                        /\ \A j \in (i+1)..Len(named) : named[j].o["id"].s # id
    IN  IF ~skip_nameless /\ Len(named) # Len(items)
        THEN Raise("KeyError", <<"name">>)
        ELSE Ok([t |-> "names", d |-> [id \in ids |-> named[last(id)].o["name"].s]])

(***************************************************************************)
(* The environment: secrets records, remote records, responses             *)
(***************************************************************************)
Ref(id) == JObj([id |-> JStr(id)])
Named(id, name) == JObj([id |-> JStr(id), name |-> JStr(name)])
Profile(service, username) == JObj([name |-> JStr(service), username |-> JStr(username)])

\* a user record with every field of every column path
MkUser(id, crefs, srefs, trefs, profiles) ==
    JObj([ email |-> JStr(id \o "@example.com"),
           name |-> JStr(id),
           location_data |-> JObj([ city_name |-> JStr("Paris"),
                                    country_name |-> JStr("France"),
                                    timezone |-> JStr("Europe/Paris") ]),
           session_count |-> JNum(3),
           last_request_at |-> JNum(1600000000),
           social_profiles |-> JObj([social_profiles |-> JArr(profiles)]),
           companies |-> JObj([companies |-> JArr(crefs)]),
           segments |-> JObj([segments |-> JArr(srefs)]),
           tags |-> JObj([tags |-> JArr(trefs)]),
           created_at |-> JNum(1500000000),
           updated_at |-> JNum(1550000000),
           id |-> JStr(id) ])

RECURSIVE Without(_, _)
\* the record without the key at the end of `path`
Without(obj, path) ==
    IF Len(path) = 1
    THEN JObj([k \in DOMAIN obj.o \ {path[1]} |-> obj.o[k]])
    ELSE JObj([k \in DOMAIN obj.o |->
                 IF k = path[1] THEN Without(obj.o[k], Tail(path)) ELSE obj.o[k]])

SeqsUpTo(S, n) == UNION {[1..k -> S] : k \in 0..n}

\* what the host may pass as `secrets`
SecretsUniverse ==
    { EmptyDict,
      JObj([access_token |-> JNull]),
      JObj([access_token |-> JObj([name |-> JStr("x")])]),
      JObj([access_token |-> JObj([name |-> JStr("x"), secret |-> JNull])]),
      JObj([access_token |-> JObj([name |-> JStr("x"), secret |-> EmptyDict])]),
      JObj([access_token |-> JObj([name |-> JStr("x"),
                                   secret |-> JObj([access_token |-> JStr("tok")])])]),
      JObj([access_token |-> JObj([name |-> JStr("x"),
                                   secret |-> JObj([token |-> JStr("tok")])])]) }

UserAnn ==
    MkUser("ann", <<Ref("c1"), Ref("c9")>>, <<Ref("s1")>>, <<>>,
           <<Profile("twitter", "ann_t")>>)
UserBob ==
    Without(MkUser("bob", <<>>, <<>>, <<Ref("t1")>>, <<>>), <<"session_count">>)

\* the records a page of each resource may carry
Items(i) ==
    CASE i = 1 -> {UserAnn, UserBob}
      [] i = 2 -> {Named("c1", "Acme"), Ref("c2")}
      [] i = 3 -> {Named("s1", "Active")}
      [] i = 4 -> {Named("t1", "VIP")}

\* The longest result array of a page: a call of fetch_paginated alone is
\* explored with pages of up to MaxPageLen records, the whole of fetch(), with
\* its four fetches in a row, with pages of at most one record.
MaxPageLen == 2
PageLists(i) == SeqsUpTo(Items(i), IF entry = "fetch" THEN 1 ELSE MaxPageLen)

\* the URLs of a resource: the one fetch_paginated starts from and a second page
SecondPage(i) == Fetches[i].url \o "&page=2"
Urls(i) == {Fetches[i].url, SecondPage(i)}

\* the "pages" blocks a response may carry
PagesBlocks(i) ==
    {JNull, EmptyDict, JObj([next |-> JNull]), JObj([next |-> JStr("")])}
        \cup {JObj([next |-> JStr(u)]) : u \in Urls(i)}

\* the JSON values a response body may decode to
Bodies(i) ==
    LET key == Fetches[i].data_key
        lists == PageLists(i)
    IN  {JArr(<<>>), JObj([type |-> JStr("error.list")])}
            \cup {JObj(key :> JArr(l)) : l \in lists}
            \cup {JObj((key :> JArr(l)) @@ ("pages" :> p)) :
                    l \in lists, p \in PagesBlocks(i)}

\* what `await client.get(...)` may produce
Responses(i) ==
    { [kind |-> "exception", exc |-> "ConnectError", text |-> <<"connection refused">>],
      [kind |-> "exception", exc |-> "ReadTimeout", text |-> <<"timed out">>],
      [kind |-> "http", status |-> 500, body |-> [valid |-> FALSE]],
      [kind |-> "http", status |-> 200, body |-> [valid |-> FALSE]] }
        \cup {[kind |-> "http", status |-> 200, body |-> [valid |-> TRUE, json |-> b]] :
                b \in Bodies(i)}

NoResponse == [kind |-> "none"]

(***************************************************************************)
(* fetch(): the entry point as a state machine                             *)
(***************************************************************************)
Init ==
    /\ secrets \in SecretsUniverse
    /\ pc = "start"
    /\ fetchIdx = 0
    /\ bearer_token = JNull
    /\ page_url = ""
    /\ npages = 0
    /\ results = <<>>
    /\ response = NoResponse
    /\ server = <<>>
    /\ users = JNull
    /\ companies = JNull
    /\ segments = JNull
    /\ tags = JNull
    /\ entry = "fetch"
    /\ requested = <<>>
    /\ requests = <<>>
    /\ outcome = Running
    /\ fnCall = "none"
    /\ fnArgs = <<>>
    /\ fnOut = <<>>

\* fetch_paginated's first lines: results = [], page_url = url
StartPaginated(i) ==
    /\ fetchIdx' = i
    /\ page_url' = Fetches[i].url
    /\ npages' = 0
    /\ results' = <<>>
    /\ requests' = <<>>
    /\ server' = <<>>
    /\ pc' = "paging"

\* fetch() raises or returns
Finish(out) ==
    /\ outcome' = out
    /\ pc' = "done"

\* fetch(), up to its first request
FetchEntry ==
    /\ pc = "start"
    /\ LET access_token == access_token_of(secrets) IN
        IF ~Truthy(access_token)
        THEN /\ Finish(Return(trans("badParam.access_token.empty",
                                    <<"Please sign in to Intercom">>, <<>>)))
             /\ UNCHANGED <<fetchIdx, bearer_token, page_url, npages, results,
                            requests, server>>
        ELSE IF "access_token" \notin DOMAIN access_token.o
        THEN /\ Finish(Raise("KeyError", <<"access_token">>))
             /\ UNCHANGED <<fetchIdx, bearer_token, page_url, npages, results,
                            requests, server>>
        ELSE /\ bearer_token' = access_token.o["access_token"]
             /\ StartPaginated(1)
             /\ UNCHANGED outcome
    /\ UNCHANGED <<secrets, response, users, companies, segments, tags, entry,
                   requested>>
    /\ UNCHANGED fnVars

\* One iteration of fetch_paginated's loop: the request, the response `resp`
\* and everything up to the next request or to the function's return. The
\* remote side answers a URL it was already asked the way it did before.
GetPage(resp) ==
    /\ pc = "paging"
    /\ page_url \in DOMAIN server => resp = server[page_url]
    /\ server' = (page_url :> resp) @@ server
    /\ requests' = Append(requests, page_url)
    /\ requested' = IF requests = <<>> THEN Append(requested, fetchIdx) ELSE requested
    /\ response' = resp
    /\ LET step == page_iteration(Fetches[fetchIdx].data_key, resp) IN
        IF step.t = "raise"
        THEN /\ Finish(IF entry = "fetch" THEN fetch_except(step) ELSE step)
             /\ UNCHANGED <<page_url, npages, results>>
        ELSE /\ results' = extend(results, step.items)
             /\ npages' = npages + 1
             /\ page_url' = IF step.t = "next" THEN step.url ELSE page_url
             /\ pc' = IF step.t = "next" /\ range_has_next(npages + 1)
                      THEN "paging" ELSE "returned"
             /\ UNCHANGED outcome
    /\ UNCHANGED <<secrets, fetchIdx, bearer_token, users, companies, segments, tags,
                   entry>>
    /\ UNCHANGED fnVars

\* users = await fetch_users(...)
FetchUsers ==
    /\ entry = "fetch" /\ pc = "returned" /\ fetchIdx = 1
    /\ users' = JArr(results)
    /\ StartPaginated(2)
    /\ UNCHANGED <<secrets, bearer_token, response, companies, segments, tags,
                   entry, requested, outcome>>
    /\ UNCHANGED fnVars

\* companies = await fetch_companies(...)
FetchCompanies ==
    /\ entry = "fetch" /\ pc = "returned" /\ fetchIdx = 2
    /\ companies' = name_dict(results, TRUE).v
    /\ StartPaginated(3)
    /\ UNCHANGED <<secrets, bearer_token, response, users, segments, tags,
                   entry, requested, outcome>>
    /\ UNCHANGED fnVars

\* segments = await fetch_segments(...)
FetchSegments ==
    /\ entry = "fetch" /\ pc = "returned" /\ fetchIdx = 3
    /\ LET d == name_dict(results, FALSE) IN
        IF d.t = "raise"
        THEN /\ Finish(fetch_except(d))
             /\ UNCHANGED <<segments, fetchIdx, page_url, npages, results,
                            requests, server>>
        ELSE /\ segments' = d.v
             /\ StartPaginated(4)
             /\ UNCHANGED outcome
    /\ UNCHANGED <<secrets, bearer_token, response, users, companies, tags, entry,
                   requested>>
    /\ UNCHANGED fnVars

\* tags = await fetch_tags(...), the last statement of the `try` block
FetchTags ==
    /\ entry = "fetch" /\ pc = "returned" /\ fetchIdx = 4
    /\ LET d == name_dict(results, FALSE) IN
        IF d.t = "raise"
        THEN /\ Finish(fetch_except(d))
             /\ UNCHANGED tags
        ELSE /\ tags' = d.v
             /\ pc' = "build"
             /\ UNCHANGED outcome
    /\ UNCHANGED <<secrets, fetchIdx, bearer_token, page_url, npages, results,
                   server, response, users, companies, segments, entry,
                   requested, requests>>
    /\ UNCHANGED fnVars

\* return build_dataframe(users, companies, segments, tags)
BuildReturn ==
    /\ pc = "build"
    /\ LET table == build_dataframe(users.a, companies.d, segments.d, tags.d) IN
        Finish(IF table.t = "raise" THEN table
               ELSE Return([t |-> "table", order |-> table.v.order,
                            data |-> table.v.data]))
    /\ UNCHANGED <<secrets, fetchIdx, bearer_token, page_url, npages, results,
                   server, response, users, companies, segments, tags,
                   entry, requested, requests>>
    /\ UNCHANGED fnVars

Next ==
    \/ FetchEntry
    \/ pc = "paging" /\ \E resp \in Responses(fetchIdx) : GetPage(resp)
    \/ FetchUsers
    \/ FetchCompanies
    \/ FetchSegments
    \/ FetchTags
    \/ BuildReturn

Spec == Init /\ [][Next]_vars

(***************************************************************************)
(* fetch_paginated called on its own, for each of the four resources       *)
(***************************************************************************)
PagInit ==
    /\ entry = "fetch_paginated"
    /\ secrets = EmptyDict
    /\ bearer_token = JStr("tok")
    /\ fetchIdx \in 1..Len(Fetches)
    /\ page_url = Fetches[fetchIdx].url
    /\ pc = "paging"
    /\ npages = 0
    /\ results = <<>>
    /\ response = NoResponse
    /\ server = <<>>
    /\ users = JNull
    /\ companies = JNull
    /\ segments = JNull
    /\ tags = JNull
    /\ requested = <<>>
    /\ requests = <<>>
    /\ outcome = Running
    /\ fnCall = "none"
    /\ fnArgs = <<>>
    /\ fnOut = <<>>

PagNext == pc = "paging" /\ \E resp \in Responses(fetchIdx) : GetPage(resp)

PagSpec == PagInit /\ [][PagNext]_vars

(***************************************************************************)
(* The pure functions called on their own                                  *)
(***************************************************************************)
MaxUsers == 2
MaxRefs == 2
MaxProfiles == 2

RefIds == {"c1", "c2", "c9"}
\* the id -> name mappings: complete, truncated, empty
NameMaps == { [id \in {"c1", "c2"} |-> IF id = "c1" THEN "Acme" ELSE "Bolt"],
              [id \in {"c2"} |-> "Bolt"],
              <<>> }
RefLists == {JArr(l) : l \in SeqsUpTo({Ref(id) : id \in RefIds}, MaxRefs)}

Services == {"facebook", "linkedin", "twitter"}
ProfileEntries ==
    {Profile("twitter", "ann_t"), Profile("twitter", "ann_2"), Profile("facebook", "ann_f")}
ProfileLists == {JArr(l) : l \in SeqsUpTo(ProfileEntries, MaxProfiles)}

\* every key of every column path, at every level
ColumnKeys ==
    UNION {{SubSeq(Columns[k].path, 1, n) : n \in 1..Len(Columns[k].path)} :
             k \in 1..Len(Columns)}

\* user records: complete ones, and ones that lack one key of a column path
BuildUsers ==
    LET full == MkUser("ann", <<Ref("c1"), Ref("c9")>>, <<Ref("s1")>>, <<>>,
                       <<Profile("twitter", "ann_t")>>)
    IN  {full, MkUser("bob", <<>>, <<>>, <<Ref("t1")>>, <<>>)}
            \cup {Without(full, path) : path \in ColumnKeys}

FnInit ==
    /\ entry = "functions"
    /\ secrets = EmptyDict
    /\ bearer_token = JNull
    /\ fetchIdx = 0
    /\ page_url = ""
    /\ pc = "idle"
    /\ npages = 0
    /\ results = <<>>
    /\ response = NoResponse
    /\ server = <<>>
    /\ users = JNull
    /\ companies = JNull
    /\ segments = JNull
    /\ tags = JNull
    /\ requested = <<>>
    /\ requests = <<>>
    /\ outcome = Running
    /\ fnCall = "none"
    /\ fnArgs = <<>>
    /\ fnOut = <<>>

CallIdsToNames ==
    /\ fnCall = "none"
    /\ \E objs \in SeqsUpTo(RefLists, MaxUsers), names \in NameMaps :
        /\ fnCall' = "ids_to_names"
        /\ fnArgs' = [objs |-> objs, names |-> names]
        /\ fnOut' = ids_to_names(objs, names)
    /\ UNCHANGED mainVars

CallExtract ==
    /\ fnCall = "none"
    /\ \E objs \in SeqsUpTo(ProfileLists, MaxUsers), service \in Services :
        /\ fnCall' = "extract_social_media_username"
        /\ fnArgs' = [objs |-> objs, service |-> service]
        /\ fnOut' = extract_social_media_username(objs, service)
    /\ UNCHANGED mainVars

CallBuildDataframe ==
    /\ fnCall = "none"
    /\ \E us \in SeqsUpTo(BuildUsers, MaxUsers), cs \in NameMaps :
        /\ fnCall' = "build_dataframe"
        /\ fnArgs' = [users |-> us, companies |-> cs,
                      segments |-> [id \in {"s1"} |-> "Active"],
                      tags |-> [id \in {"t1"} |-> "VIP"]]
        /\ fnOut' = build_dataframe(us, cs, [id \in {"s1"} |-> "Active"],
                                    [id \in {"t1"} |-> "VIP"])
    /\ UNCHANGED mainVars

FnNext ==
    \/ CallIdsToNames
    \/ CallExtract
    \/ CallBuildDataframe

FnSpec == FnInit /\ [][FnNext]_vars

(***************************************************************************)
(* Properties                                                              *)
(***************************************************************************)
\* kinds of response, by what the remote side sent
NetworkFailure(r) ==
    \/ r.kind = "exception"
    \/ r.kind = "http" /\ r.status \notin 200..299
Decoded(r) == r.kind = "http" /\ r.status \in 200..299 /\ r.body.valid
NonObject(r) == Decoded(r) /\ r.body.json.t # "obj"
MissingKey(r, key) ==
    Decoded(r) /\ r.body.json.t = "obj" /\ key \notin DOMAIN r.body.json.o
ValidPage(r, key) ==
    Decoded(r) /\ r.body.json.t = "obj" /\ key \in DOMAIN r.body.json.o
\* the response has a pagination block with a non-empty "next" URL
HasNextLink(r) ==
    /\ "pages" \in DOMAIN r.body.json.o
    /\ r.body.json.o["pages"].t = "obj"
    /\ "next" \in DOMAIN r.body.json.o["pages"].o
    /\ r.body.json.o["pages"].o["next"].t = "str"
    /\ r.body.json.o["pages"].o["next"].s # ""

\* the cases without a next-page link: no pagination block, or a block whose
\* "next" is null, is empty, or is not there
NoNextLink(r) ==
    \/ "pages" \notin DOMAIN r.body.json.o
    \/ /\ "pages" \in DOMAIN r.body.json.o
       /\ r.body.json.o["pages"].t = "obj"
       /\ \/ "next" \notin DOMAIN r.body.json.o["pages"].o
          \/ /\ "next" \in DOMAIN r.body.json.o["pages"].o
             /\ \/ r.body.json.o["pages"].o["next"].t = "null"
                \/ r.body.json.o["pages"].o["next"] = JStr("")

DataKey == Fetches[fetchIdx].data_key
Requesting == fetchIdx \in 1..Len(Fetches) /\ requests # <<>>

\* the result arrays of the pages requested so far, in request order: what
\* the remote side answered for each requested URL
Served ==
    [k \in 1..Len(requests) |-> server[requests[k]].body.json.o[DataKey].a]

Contains(text, fragment) == \E k \in 1..Len(text) : text[k] = fragment

IsMessage(out, id) == out.t = "return" /\ out.v.t = "message" /\ out.v.id = id
IsTable(out) == out.t = "return" /\ out.v.t = "table"

\* C1: fetch_paginated never issues a 51st request; when the 50th response
\* still carries a next-page link it stops there without an error and
\* returns the results accumulated from the 50 pages.
C1_StopsAtPageCap ==
    /\ Len(requests) <= MaxNPages
    /\ (/\ Len(requests) = MaxNPages
        /\ ValidPage(response, DataKey)
        /\ HasNextLink(response))
       => /\ pc = "returned"
          /\ outcome = Running
          /\ Len(Served) = MaxNPages
          /\ results = Flatten(Served)

C1_Witness ==
    /\ pc = "returned"
    /\ Len(requests) = MaxNPages
    /\ ValidPage(response, DataKey)
    /\ HasNextLink(response)
    /\ Len(results) >= MaxNPages

\* C2: a valid response (a JSON object with the result key) without a
\* pagination block that has a non-empty "next" URL ends the fetch after that
\* page without an error: the accumulated results are returned.
C2_NoNextLinkStops ==
    (Requesting /\ ValidPage(response, DataKey) /\ NoNextLink(response))
    => /\ pc = "returned"
       /\ outcome = Running
       /\ results = Flatten(Served)

\* C3: every network-layer failure of a page request (connection error,
\* timeout, non-2xx status) makes fetch return the "Error querying Intercom"
\* message with the cause text; nothing propagates as an exception.
C3_NetworkFailureIsMessage ==
    (Requesting /\ NetworkFailure(response))
    => /\ IsMessage(outcome, "error.httpError.general")
       /\ outcome.v.text[1] = "Error querying Intercom: "
       /\ Len(outcome.v.text) > 1

\* C4 as stated: a response that is not a JSON object, or one without the
\* result key, makes fetch return the "Error handling Intercom response"
\* message, and that message contains the key name.
C4_ShapeErrorNamesKey ==
    (Requesting /\ (NonObject(response) \/ MissingKey(response, DataKey)))
    => /\ IsMessage(outcome, "error.unexpectedIntercomJson.general")
       /\ Contains(outcome.v.text, DataKey)

\* C4 as the code has it: both make fetch return the "Error handling Intercom
\* response" message; the message of a response without the result key
\* contains the key name, the message of a response that is not a JSON object
\* says so and names no key.
C4_ShapeErrorMessage ==
    /\ (Requesting /\ MissingKey(response, DataKey))
       => /\ IsMessage(outcome, "error.unexpectedIntercomJson.general")
          /\ outcome.v.text[1] = "Error handling Intercom response: "
          /\ Contains(outcome.v.text, DataKey)
    /\ (Requesting /\ NonObject(response))
       => /\ IsMessage(outcome, "error.unexpectedIntercomJson.general")
          /\ outcome.v.text = <<"Error handling Intercom response: ",
                                "Intercom did not return a JSON Object">>
          /\ ~Contains(outcome.v.text, DataKey)

C4_Witness ==
    /\ Requesting
    /\ fetchIdx = 3
    /\ Len(requests) = 2
    /\ MissingKey(response, DataKey)
    /\ IsMessage(outcome, "error.unexpectedIntercomJson.general")

\* the secrets records without a usable access-token secret: no entry, a null
\* entry, an entry without a secret, with a null secret, with an empty secret
NoCredential ==
    /\ "access_token" \in DOMAIN secrets.o =>
         /\ secrets.o["access_token"].t = "obj" =>
              /\ "secret" \in DOMAIN secrets.o["access_token"].o =>
                   \/ secrets.o["access_token"].o["secret"].t = "null"
                   \/ secrets.o["access_token"].o["secret"] = EmptyDict

\* C5: with no credential configured fetch returns the authentication-required
\* message, and no request is made at any point.
C5_NoCredentialNoRequest ==
    NoCredential
    => /\ requested = <<>>
       /\ requests = <<>>
       /\ response = NoResponse
       /\ pc \in {"start", "done"}
       /\ pc = "done" => /\ IsMessage(outcome, "badParam.access_token.empty")
                         /\ outcome.v.text = <<"Please sign in to Intercom">>

C5_Witness ==
    /\ NoCredential
    /\ "access_token" \in DOMAIN secrets.o
    /\ pc = "done"
    /\ IsMessage(outcome, "badParam.access_token.empty")

\* every fetch before the i-th has returned and its result is assigned
Assigned(i) ==
    CASE i = 1 -> users # JNull
      [] i = 2 -> companies # JNull
      [] i = 3 -> segments # JNull
      [] i = 4 -> tags # JNull

\* C6: the four fetches run in the order users, companies, segments, tags,
\* each finishing its requests before the next issues its first; the first
\* failing request (transport or shape failure) ends the invocation with an
\* error message: no later request, no retry, never a table.
C6_SequentialAllOrNothing ==
    /\ \A k \in 1..Len(requested) :
         /\ requested[k] = k
         /\ k < Len(requested) => Assigned(k)
    /\ Requesting => requested[Len(requested)] = fetchIdx
    /\ (Requesting /\ (\/ NetworkFailure(response)
                       \/ NonObject(response)
                       \/ MissingKey(response, DataKey)))
       => /\ pc = "done"
          /\ outcome.t = "return"
          /\ outcome.v.t = "message"
          /\ \A k \in 1..(Len(requests) - 1) : requests[k] # requests[Len(requests)]

\* C7: whenever all four fetches succeed, fetch returns a table, whatever
\* fields the fetched records lack.
C7_IrregularRecordsGiveTable ==
    (pc = "done" /\ tags # JNull) => IsTable(outcome)

\* C8 as a left-to-right reading of the list: the string for the first k
\* references of `refs`
RECURSIVE JoinedNames(_, _, _)
JoinedNames(refs, names, k) ==
    IF k = 0 THEN ""
    ELSE LET id == refs[k].o["id"].s
             before == JoinedNames(refs, names, k - 1)
         IN  IF id \notin DOMAIN names THEN before
             ELSE IF \A j \in 1..(k-1) : refs[j].o["id"].s \notin DOMAIN names
             THEN names[id]
             ELSE before \o "; " \o names[id]

\* C8: ids_to_names gives, for every user, the names of exactly the listed
\* ids that are in the mapping, in list order, joined by "; "; an id that is
\* not in the mapping leaves no trace, and no resolvable id gives "".
C8_IdsToNames ==
    fnCall = "ids_to_names"
    => /\ fnOut.t = "ok"
       /\ Len(fnOut.v) = Len(fnArgs.objs)
       /\ \A i \in 1..Len(fnArgs.objs) :
            LET refs == fnArgs.objs[i].a IN
            /\ fnOut.v[i] = JStr(JoinedNames(refs, fnArgs.names, Len(refs)))
            /\ (\A k \in 1..Len(refs) : refs[k].o["id"].s \notin DOMAIN fnArgs.names)
               => fnOut.v[i] = JStr("")

C8_Witness ==
    /\ fnCall = "ids_to_names"
    /\ DOMAIN fnArgs.names = {"c1", "c2"}
    /\ \E i, j \in 1..Len(fnArgs.objs) :
         /\ fnArgs.objs[i].a = <<Ref("c2"), Ref("c1")>>
         /\ fnOut.v[i] = JStr("Bolt; Acme")
         /\ fnArgs.objs[j].a = <<Ref("c9"), Ref("c1")>>
         /\ fnOut.v[j] = JStr("Acme")

\* the username of the first entry of `profiles` named `service`, else missing
FirstUsername(profiles, service) ==
    LET hits == {k \in 1..Len(profiles) : profiles[k].o["name"].s = service}
    IN  IF hits = {} THEN JNaN
        ELSE profiles[CHOOSE k \in hits : \A m \in hits : k <= m].o["username"]

Missing(cell) == cell.t \in {"nan", "null"}

UsernameColumn(service) == service \o "_username"

\* C9: for each of facebook, linkedin and twitter a user's cell is the
\* username of the first profile entry named after the service, and is
\* missing (not "") when there is none; so in the table a user without social
\* profiles has the three username columns missing.
C9_SocialUsernames ==
    /\ fnCall = "extract_social_media_username"
       => /\ fnOut.t = "ok"
          /\ Len(fnOut.v) = Len(fnArgs.objs)
          /\ \A i \in 1..Len(fnArgs.objs) :
               /\ fnOut.v[i] = FirstUsername(fnArgs.objs[i].a, fnArgs.service)
               /\ (\A k \in 1..Len(fnArgs.objs[i].a) :
                      fnArgs.objs[i].a[k].o["name"].s # fnArgs.service)
                  => Missing(fnOut.v[i]) /\ fnOut.v[i] # JStr("")
    /\ (fnCall = "build_dataframe" /\ fnOut.t = "ok")
       => \A i \in 1..Len(fnArgs.users) : \A service \in Services :
            LET profiles == fnArgs.users[i].o["social_profiles"].o["social_profiles"].a
                cell == fnOut.v.data[UsernameColumn(service)][i]
            IN  /\ cell = FirstUsername(profiles, service)
                /\ profiles = <<>> => Missing(cell)

C9_Witness ==
    /\ fnCall = "extract_social_media_username"
    /\ fnArgs.service = "twitter"
    /\ \E i, j \in 1..Len(fnArgs.objs) :
         /\ fnArgs.objs[i].a = <<Profile("twitter", "ann_2"), Profile("twitter", "ann_t")>>
         /\ fnOut.v[i] = JStr("ann_2")
         /\ fnArgs.objs[j].a = <<Profile("facebook", "ann_f")>>
         /\ fnOut.v[j] = JNaN

\* C10: on success fetch_paginated returns exactly the concatenation of the
\* result arrays of the pages it requested, in request order, each page in
\* the order the remote side gave; a record served twice is there twice.
C10_ResultsAreConcatenation ==
    pc = "returned"
    => /\ results = Flatten(Served)
       /\ Len(results) = Len(Flatten(Served))
       /\ npages = Len(requests)

C10_Witness ==
    /\ pc = "returned"
    /\ \E j, k \in 1..Len(requests) :
         /\ j < k
         /\ requests[j] = requests[k]
         /\ Len(Served[k]) = 2
         /\ Served[k][1] # Served[k][2]
    /\ \E a, b \in 1..Len(results) : a < b /\ results[a] = results[b]

====
